---- MODULE Spec2Model ----
(***************************************************************************)
(* A model of ese200/trajectories.py: the constant-acceleration dynamics   *)
(* (get_dynamics), the Simulator object (Simulator.__init__, step), the    *)
(* trajectory fitter (optimize) and the batch generator                    *)
(* (generate_expert_trajectories).                                         *)
(*                                                                         *)
(* Numbers.  Every real of the program is held as an exact fraction        *)
(* [n / d] in lowest terms with d > 0, so sums, products and quotients are *)
(* exact and equal numbers are equal values.  NaN is the fraction 0 / 0,   *)
(* absorbing under every operation.                                        *)
(*                                                                         *)
(* Arrays are sequences (1-based): a matrix is a sequence of rows.         *)
(***************************************************************************)
EXTENDS Integers, Sequences, FiniteSets, TLC

VARIABLES
    config,   \* Simulator: self.config, per instance
    A,        \* Simulator: self.A
    B,        \* Simulator: self.B
    rng,      \* Simulator: self.rng, as [seed, pos]: the seed and the stream position
    xbuf,     \* the caller's state batch x, the first argument of step
    ubuf,     \* the caller's input batch u, the second argument of step
    ret,      \* what the last step call of the instance returned
    calls,    \* the step calls of the instance so far: <<[x, u, noise, ret], ...>>
    gen,      \* one run of generate_expert_trajectories
    fn        \* one call of a function of the module: get_dynamics, optimize

vars == <<config, A, B, rng, xbuf, ubuf, ret, calls, gen, fn>>

simVars == <<config, A, B, rng, xbuf, ubuf, ret, calls>>

----------------------------------------------------------------------------
(* Bounds of the model.                                                    *)

MaxDt == 2          \* time steps 1 .. MaxDt
MaxSeed == 1        \* the seeds the entropy source may give: 0 .. MaxSeed
MaxSteps == 3       \* step calls of all Simulator instances together
MaxT == 12          \* grid lengths 1 .. MaxT of the index computation
MaxP == 10          \* waypoint counts 1 .. MaxP of the index computation
MaxTraj == 2        \* n_trajectories 0 .. MaxTraj
MaxDuration == 20   \* durations 1/2 .. MaxDuration/2, in halves

----------------------------------------------------------------------------
(* Exact arithmetic.                                                       *)

Abs(k) == IF k < 0 THEN 0 - k ELSE k

RECURSIVE GCD(_, _)
\* the greatest common divisor of two naturals
GCD(a, b) == IF b = 0 THEN a ELSE GCD(b, a % b)

\* a NaN: what numpy stores for None in a float array
NaN == [n |-> 0, d |-> 0]

IsNaN(a) == a = NaN

\* the number n / d, in lowest terms with a positive denominator
Q(n, d) ==
    IF d = 0 THEN NaN
    ELSE LET g == GCD(Abs(n), Abs(d))
             s == IF d < 0 THEN 0 - 1 ELSE 1
         IN [n |-> (s * n) \div g, d |-> (s * d) \div g]

\* the real number k (an integer)
Whole(k) == [n |-> k, d |-> 1]

Zero == Whole(0)

\* the literal 0.5
Half == Q(1, 2)

\* a * b
Mul(a, b) == Q(a.n * b.n, a.d * b.d)

\* a / b, b not 0
Div(a, b) == Q(a.n * b.d, a.d * b.n)

\* a + b: NaN absorbs
FAdd(a, b) == Q(a.n * b.d + b.n * a.d, a.d * b.d)

\* a - b
Sub(a, b) == FAdd(a, Mul(Whole(0 - 1), b))

\* a < b, of two numbers
Less(a, b) == a.n * b.d < b.n * a.d

RECURSIVE SumTo(_, _)
\* f[1] + ... + f[n], of integers (counts and positions)
SumTo(f, n) == IF n = 0 THEN 0 ELSE SumTo(f, n - 1) + f[n]

RECURSIVE FSum(_, _)
\* f[1] + ... + f[n], of numbers
FSum(f, n) == IF n = 0 THEN Zero ELSE FAdd(FSum(f, n - 1), f[n])

\* numpy: M.T
Transpose(M) == [j \in 1..Len(M[1]) |-> [k \in 1..Len(M) |-> M[k][j]]]

\* numpy: X @ M, X of n rows by m, M of m rows by c
MatMul(X, M) ==
    [n \in 1..Len(X) |->
        [j \in 1..Len(M[1]) |->
            FSum([k \in 1..Len(M) |-> Mul(X[n][k], M[k][j])], Len(M))]]

\* numpy: X + Y, elementwise, of two arrays of the same shape
MatAdd(X, Y) ==
    [n \in 1..Len(X) |-> [j \in 1..Len(X[n]) |-> FAdd(X[n][j], Y[n][j])]]

\* numpy: an array of `rows` rows by `cols` from the flat sequence `flat`
Reshape(flat, rows, cols) ==
    [n \in 1..rows |-> [j \in 1..cols |-> flat[(n - 1) * cols + j]]]

\* numpy: np.zeros((rows, cols))
Zeros(rows, cols) == [n \in 1..rows |-> [j \in 1..cols |-> Zero]]

----------------------------------------------------------------------------
(* get_dynamics                                                            *)

\* a B whose position rows carry dt**2 in place of 0.5 * dt**2
GetDynamicsNoHalf(dt) ==
    [A |-> << <<Whole(1), Zero, dt, Zero>>,
              <<Zero, Whole(1), Zero, dt>>,
              <<Zero, Zero, Whole(1), Zero>>,
              <<Zero, Zero, Zero, Whole(1)>> >>,
     B |-> << <<Mul(dt, dt), Zero>>,
              <<Zero, Mul(dt, dt)>>,
              <<dt, Zero>>,
              <<Zero, dt>> >>]

\* get_dynamics(dt): the pair (A, B)
get_dynamics(dt) ==
    [A |-> << <<Whole(1), Zero, dt, Zero>>,
              <<Zero, Whole(1), Zero, dt>>,
              <<Zero, Zero, Whole(1), Zero>>,
              <<Zero, Zero, Zero, Whole(1)>> >>,
     B |-> << <<Mul(Half, Mul(dt, dt)), Zero>>,
              <<Zero, Mul(Half, Mul(dt, dt))>>,
              <<dt, Zero>>,
              <<Zero, dt>> >>]

\* A . v of a matrix and a vector
MatVec(M, v) ==
    [j \in 1..Len(M) |-> FSum([k \in 1..Len(v) |-> Mul(M[j][k], v[k])], Len(v))]

VecAdd(v, w) == [j \in 1..Len(v) |-> FAdd(v[j], w[j])]

\* the time steps of the Simulator configurations: the whole numbers 1 .. MaxDt
Dts == {Whole(k) : k \in 1..MaxDt}

\* the time steps get_dynamics is called with: a fractional one too
DynDts == Dts \cup {Half}

\* the coordinates of the states and inputs the model draws
Coords == {Whole(0 - 1), Zero, Half, Whole(1)}

Accels == {Whole(0 - 1), Zero, Whole(1)}

----------------------------------------------------------------------------
(* Simulator                                                               *)

SimIds == {1, 2}

\* the configurations a Simulator is built from (the fields step reads)
SimConfigs == [time_step : Dts, trajectory_noise : {Whole(0), Whole(1)}]

\* the seeds np.random.default_rng() may take from the entropy source
Seeds == 0..MaxSeed

\* the k-th standard normal sample (k = 0, 1, ...) of the stream seeded `seed`:
\* a fixed function of the seed and the position, one of -1, 0, 1
Sample(seed, k) == Whole((((k * k + (seed + 1) * k + seed) % 7) % 3) - 1)

\* a generator that multiplies no sample by the scale
NormalUnscaled(seed, pos, scale, n) == [i \in 1..n |-> Sample(seed, pos + i - 1)]

\* rng.normal(scale=scale, size=n) of a generator at position pos: the next n
\* samples of its stream, each multiplied by scale
Normal(seed, pos, scale, n) ==
    [i \in 1..n |-> Mul(scale, Sample(seed, pos + i - 1))]

\* the stream position of a generator shared by every instance
SharedStreamPos(s) == SumTo([t \in 1..Cardinality(SimIds) |-> rng[t].pos], Cardinality(SimIds))

\* the stream position of self.rng
StreamPos(s) == rng[s].pos

\* the step calls made so far, on all instances
StepsMade == SumTo([t \in 1..Cardinality(SimIds) |-> Len(calls[t])], Cardinality(SimIds))

\* x.size
Size(X) == IF Len(X) = 0 THEN 0 ELSE Len(X) * Len(X[1])

\* x @ self.A.T + u @ self.B.T + noise
StepValue(s, x, u, noise) ==
    MatAdd(MatAdd(MatMul(x, Transpose(A[s])), MatMul(u, Transpose(B[s]))), noise)

\* the noise of one step call of instance s on a batch x
StepNoise(s, x) ==
    Reshape(Normal(rng[s].seed, StreamPos(s),
                   Mul(config[s].trajectory_noise, config[s].time_step), Size(x)),
            Len(x), Len(x[1]))

\* the state batches and input batches a caller starts from
X0s == { << <<Whole(0), Whole(0), Whole(1), Whole(0)>> >>,
         << <<Whole(1), Half, Whole(0), Whole(0 - 1)>>, <<Whole(0), Whole(0), Whole(0), Whole(0)>> >> }

UPool(n) == { [r \in 1..n |-> <<Whole(1), Whole(0)>>],
              [r \in 1..n |-> <<Whole(0 - r), Whole(1)>>] }

\* Simulator.__init__(config), for every instance: the dynamics pair of the
\* configuration's time step and a generator seeded from the entropy source
SimInit ==
    /\ \E c \in SimConfigs : config = [s \in SimIds |-> c]
    /\ A = [s \in SimIds |-> get_dynamics(config[s].time_step).A]
    /\ B = [s \in SimIds |-> get_dynamics(config[s].time_step).B]
    /\ \E sd \in [SimIds -> Seeds] : rng = [s \in SimIds |-> [seed |-> sd[s], pos |-> 0]]
    /\ \E x \in X0s : xbuf = [s \in SimIds |-> x]
    /\ ubuf = [s \in SimIds |-> [r \in 1..Len(xbuf[s]) |-> <<Whole(1), Whole(0)>>]]
    /\ ret = [s \in SimIds |-> <<>>]
    /\ calls = [s \in SimIds |-> <<>>]

\* Simulator.step(x, u) on instance s, with the caller's batches
Step(s) ==
    /\ StepsMade < MaxSteps
    /\ LET x == xbuf[s]
           u == ubuf[s]
           noise == StepNoise(s, x)
           out == StepValue(s, x, u, noise)
       IN /\ rng' = [rng EXCEPT ![s].pos = StreamPos(s) + Size(x)]
          /\ ret' = [ret EXCEPT ![s] = out]
          /\ calls' = [calls EXCEPT ![s] =
                          Append(@, [x |-> x, u |-> u, noise |-> noise, ret |-> out])]
    /\ UNCHANGED <<config, A, B, xbuf, ubuf, gen, fn>>

\* the caller of instance s rolls out: x = sim.step(x, u)
Advance(s) ==
    /\ StepsMade < MaxSteps
    /\ calls[s] # <<>>
    /\ xbuf[s] # ret[s]
    /\ xbuf' = [xbuf EXCEPT ![s] = ret[s]]
    /\ UNCHANGED <<config, A, B, rng, ubuf, ret, calls, gen, fn>>

\* the caller of instance s picks the next input batch
Control(s) ==
    /\ StepsMade < MaxSteps
    /\ \E u \in UPool(Len(xbuf[s])) \ {ubuf[s]} : ubuf' = [ubuf EXCEPT ![s] = u]
    /\ UNCHANGED <<config, A, B, rng, xbuf, ret, calls, gen, fn>>

\* no run of generate_expert_trajectories, no function call
GenIdle == gen = [pc |-> "idle"]

FnIdle == fn = [op |-> "idle"]

InitSim == SimInit /\ GenIdle /\ FnIdle

NextSim == \E s \in SimIds : Step(s) \/ Advance(s) \/ Control(s)

\* the Simulator instances and their callers
SpecSim == InitSim /\ [][NextSim]_vars

----------------------------------------------------------------------------
(* One call of get_dynamics, and its pair applied to a state and an input  *)

States4 == {<<a, b, c, d>> : a \in Coords, b \in Coords, c \in Coords, d \in Coords}

Inputs2 == {<<a, b>> : a \in Accels, b \in Accels}

\* no Simulator instance is stepped: both are as built from one configuration
SimIdle ==
    /\ config = [s \in SimIds |-> [time_step |-> Whole(1), trajectory_noise |-> Whole(0)]]
    /\ A = [s \in SimIds |-> get_dynamics(config[s].time_step).A]
    /\ B = [s \in SimIds |-> get_dynamics(config[s].time_step).B]
    /\ rng = [s \in SimIds |-> [seed |-> 0, pos |-> 0]]
    /\ xbuf = [s \in SimIds |-> Zeros(1, 4)]
    /\ ubuf = [s \in SimIds |-> Zeros(1, 2)]
    /\ ret = [s \in SimIds |-> <<>>]
    /\ calls = [s \in SimIds |-> <<>>]

InitDyn ==
    /\ SimIdle
    /\ GenIdle
    /\ \E d \in DynDts, st \in States4, inp \in Inputs2 :
          fn = [op |-> "get_dynamics", pc |-> "call", dt |-> d, state |-> st, input |-> inp]

\* A, B = get_dynamics(dt); next = A . state + B . input
CallGetDynamics ==
    /\ fn.op = "get_dynamics" /\ fn.pc = "call"
    /\ LET D == get_dynamics(fn.dt)
       IN fn' = [op |-> "get_dynamics", pc |-> "done", dt |-> fn.dt,
                 state |-> fn.state, input |-> fn.input, A |-> D.A, B |-> D.B,
                 next |-> VecAdd(MatVec(D.A, fn.state), MatVec(D.B, fn.input))]
    /\ UNCHANGED <<simVars, gen>>

NextDyn == CallGetDynamics

SpecDyn == InitDyn /\ [][NextDyn]_vars

----------------------------------------------------------------------------
(* optimize: the waypoint indices                                          *)

\* np.linspace(start, stop, num), each entry as a fraction [n / d]: the entry i
\* (from 0) is start + i * (stop - start) / (num - 1).  numpy forms the entry as
\* the floating-point product i * ((stop - start) / (num - 1)); for the grids of
\* the model (and up to 30 steps) its integer part is that of the exact fraction.
Linspace(start, stop, num) ==
    IF num = 1 THEN << [n |-> start, d |-> 1] >>
    ELSE [i \in 1..num |-> [n |-> start * (num - 1) + (i - 1) * (stop - start), d |-> num - 1]]

\* a conversion that rounds up
AsIntCeil(q) == IF q.n >= 0 THEN (q.n + q.d - 1) \div q.d ELSE 0 - ((0 - q.n) \div q.d)

\* .astype(int) of a fraction: the fractional part is dropped (towards zero)
AsInt(q) == IF q.n >= 0 THEN q.n \div q.d ELSE 0 - ((0 - q.n) \div q.d)

\* [:-1]
DropLast(seq) == SubSeq(seq, 1, Len(seq) - 1)

\* indices over len(points) entries of the linspace, its last entry kept
PointIdxNoWrap(T, P) ==
    [i \in 1..P |-> AsInt(Linspace(0, T - 1, P)[i])]

\* np.linspace(0, len(t) - 1, len(points) + 1).astype(int)[:-1]
PointIdxRaw(T, P) ==
    DropLast([i \in 1..(P + 1) |-> AsInt(Linspace(0, T - 1, P + 1)[i])])

\* point_idx after point_idx[0] = 0
PointIdx(T, P) == [PointIdxRaw(T, P) EXCEPT ![1] = 0]

InitIdx ==
    /\ SimIdle
    /\ GenIdle
    /\ \E T \in 1..MaxT, P \in 1..MaxP : fn = [op |-> "point_idx", pc |-> "call", T |-> T, P |-> P]

\* the first two statements of optimize after the variables: lines 88 and 89
ComputePointIdx ==
    /\ fn.op = "point_idx" /\ fn.pc = "call"
    /\ fn' = [op |-> "point_idx", pc |-> "done", T |-> fn.T, P |-> fn.P,
              raw |-> PointIdxRaw(fn.T, fn.P), idx |-> PointIdx(fn.T, fn.P)]
    /\ UNCHANGED <<simVars, gen>>

NextIdx == ComputePointIdx

SpecIdx == InitIdx /\ [][NextIdx]_vars

----------------------------------------------------------------------------
(* Claims about get_dynamics and the Simulator                             *)

\* C1: for every time step dt > 0, state [x, y, vx, vy] and input [ax, ay], the
\* pair of get_dynamics(dt) applied as A . state + B . input gives
\* pos + vel*dt + 0.5*a*dt^2 for each position and vel + a*dt for each velocity,
\* each axis from its own components only.
Th_C1_KinematicUpdate ==
    (fn.op = "get_dynamics" /\ fn.pc = "done") =>
        LET dt == fn.dt
            st == fn.state
            a  == fn.input
        IN /\ Less(Zero, dt)
           /\ fn.next[1] = FAdd(FAdd(st[1], Mul(st[3], dt)), Mul(Half, Mul(a[1], Mul(dt, dt))))
           /\ fn.next[2] = FAdd(FAdd(st[2], Mul(st[4], dt)), Mul(Half, Mul(a[2], Mul(dt, dt))))
           /\ fn.next[3] = FAdd(st[3], Mul(a[1], dt))
           /\ fn.next[4] = FAdd(st[4], Mul(a[2], dt))

\* a call with a fractional time step, a moving state and an accelerating input:
\* 0.5 + 1 * 0.5 + 0.5 * 1 * 0.25 = 9/8
Wit_C1 ==
    /\ fn.op = "get_dynamics" /\ fn.pc = "done"
    /\ fn.dt = Half
    /\ fn.state = <<Half, Whole(1), Whole(1), Whole(0 - 1)>>
    /\ fn.input = <<Whole(1), Whole(0 - 1)>>
    /\ fn.next = <<Q(9, 8), Q(3, 8), Q(3, 2), Q(0 - 3, 2)>>

\* the noise scale of instance s: trajectory_noise * time_step
NoiseScale(s) == Mul(config[s].trajectory_noise, config[s].time_step)

\* A . state + B . input of every row of a batch, with the pair of get_dynamics(dt)
Propagate(dt, x, u) ==
    [n \in 1..Len(x) |->
        VecAdd(MatVec(get_dynamics(dt).A, x[n]), MatVec(get_dynamics(dt).B, u[n]))]

RECURSIVE Iterate(_, _, _, _, _)
\* the noise-free iteration of the dynamics from batch x over the inputs of the
\* calls i .. k of a call sequence cs
Iterate(dt, x, cs, i, k) ==
    IF i > k THEN x ELSE Iterate(dt, Propagate(dt, x, cs[i].u), cs, i + 1, k)

\* the calls i .. k of cs form a rollout: each takes the state the one before returned
IsRollout(cs, i, k) == \A j \in (i + 1)..k : cs[j].x = cs[j - 1].ret

\* C6: when trajectory_noise * time_step is 0, every step call, after any earlier
\* calls, returns A . state + B . input of each row with (A, B) =
\* get_dynamics(config.time_step), and a rollout of k steps equals the k-fold
\* noise-free iteration of the dynamics.
Th_C6_NoiselessStepIsPropagation ==
    \A s \in SimIds :
        NoiseScale(s) = Zero =>
            \A k \in 1..Len(calls[s]) :
                /\ calls[s][k].ret = Propagate(config[s].time_step, calls[s][k].x, calls[s][k].u)
                /\ \A i \in 1..k :
                      IsRollout(calls[s], i, k) =>
                          calls[s][k].ret = Iterate(config[s].time_step, calls[s][i].x, calls[s], i, k)

\* a noise-free instance after a rollout of two steps on a batch of two moving rows
Wit_C6 ==
    \E s \in SimIds :
        /\ NoiseScale(s) = Zero
        /\ config[s].time_step = Whole(2)
        /\ Len(calls[s]) = 2
        /\ Len(calls[s][1].x) = 2
        /\ calls[s][2].x = calls[s][1].ret
        /\ calls[s][2].ret # calls[s][2].x
        /\ calls[s][1].u # calls[s][2].u

AloneNoise(s, k) ==
    LET before == SumTo([j \in 1..(k - 1) |-> Size(calls[s][j].x)], k - 1)
        x == calls[s][k].x
    IN Reshape(Normal(rng[s].seed, before, NoiseScale(s), Size(x)), Len(x), Len(x[1]))

\* what a step call of instance s leaves alone
StepFrame(s) ==
    /\ config' = config /\ A' = A /\ B' = B
    /\ xbuf' = xbuf /\ ubuf' = ubuf
    /\ rng'[s].seed = rng[s].seed
    /\ rng'[s].pos = rng[s].pos + Size(xbuf[s])
    /\ \A t \in SimIds \ {s} : rng'[t] = rng[t] /\ ret'[t] = ret[t] /\ calls'[t] = calls[t]

\* C8: a step call on one Simulator leaves its config, A and B and its arguments
\* x and u unchanged and moves only the stream position of its own generator; it
\* changes nothing in another instance, so under any interleaving of the calls
\* of two instances each gets the draws it gets when run alone.
Th_C8_StepFrame ==
    /\ [](\A s \in SimIds : \A k \in 1..Len(calls[s]) : calls[s][k].noise = AloneNoise(s, k))
    /\ [][\A s \in SimIds : calls'[s] # calls[s] => StepFrame(s)]_vars

\* both instances have stepped, with noise, from different seeds
Wit_C8 ==
    /\ Len(calls[1]) = 2 /\ Len(calls[2]) = 1
    /\ NoiseScale(1) # Zero
    /\ rng[1].seed # rng[2].seed
    /\ calls[1][2].noise # calls[1][1].noise
    /\ calls[2][1].noise # calls[1][1].noise
    /\ calls[1][2].x = calls[1][1].ret

----------------------------------------------------------------------------
(* Claims about the waypoint indices                                       *)

IdxDone == fn.op = "point_idx" /\ fn.pc = "done"

NoDuplicate(idx) == \A i \in 1..Len(idx), j \in 1..Len(idx) : i # j => idx[i] # idx[j]

\* C9, as the specification states it: for every T and P the waypoint indices
\* are evenly spaced (all consecutive indices differ by the same amount) and
\* contain no duplicate.
CE_C9_EvenlySpacedNoDuplicate ==
    IdxDone =>
        /\ \A i \in 2..fn.P, j \in 2..fn.P :
              fn.idx[i] - fn.idx[i - 1] = fn.idx[j] - fn.idx[j - 1]
        /\ NoDuplicate(fn.idx)

\* C9, amended: consecutive indices differ by floor((T-1)/P) or by one more
\* (all by (T-1)/P when P divides T-1): the spacing is even up to the flooring.
\* There is no duplicate when P <= T-1; when P >= T and P >= 2 the first two
\* indices are both 0.
Th_C9_SpacingUpToFlooring ==
    IdxDone =>
        LET q == (fn.T - 1) \div fn.P
        IN /\ \A i \in 2..fn.P : fn.idx[i] - fn.idx[i - 1] \in {q, q + 1}
           /\ (fn.T - 1) % fn.P = 0 => \A i \in 2..fn.P : fn.idx[i] - fn.idx[i - 1] = q
           /\ fn.P <= fn.T - 1 => NoDuplicate(fn.idx)
           /\ (fn.P >= fn.T /\ fn.P >= 2) => fn.idx[1] = 0 /\ fn.idx[2] = 0

\* indices whose spacing is uneven: 0, 2, 5 on a grid of 9
Wit_C9 == IdxDone /\ fn.T = 9 /\ fn.P = 3 /\ fn.idx = <<0, 2, 5>>

\* C10: for 1 <= P <= T-1 the indices are strictly increasing, start at 0 and lie
\* in [0, T-2]: no two waypoints share a step, the loop-closure step T-1 carries
\* no waypoint, and forcing the first index to 0 changes nothing.
Th_C10_IndicesIncreasingBelowLast ==
    (IdxDone /\ 1 <= fn.P /\ fn.P <= fn.T - 1) =>
        /\ Len(fn.idx) = fn.P
        /\ fn.idx[1] = 0
        /\ \A i \in 2..fn.P : fn.idx[i - 1] < fn.idx[i]
        /\ \A i \in 1..fn.P : 0 <= fn.idx[i] /\ fn.idx[i] <= fn.T - 2
        /\ NoDuplicate(fn.idx)
        /\ fn.raw = fn.idx

\* the generator's own case in small: a grid one longer than the waypoint count
Wit_C10 == IdxDone /\ fn.P = 9 /\ fn.T = 10 /\ fn.idx = <<0, 1, 2, 3, 4, 5, 6, 7, 8>>

----------------------------------------------------------------------------
(* optimize                                                                *)
(*                                                                         *)
(* The quadratic program of lines 92-104 is solved by cvxpy.  The model    *)
(* covers the grids with len(t) <= len(points) + 1, where every step       *)
(* before the last carries a waypoint and the equality constraints fix the *)
(* positions x[k][0:2] of the whole trajectory.  Per axis, with positions  *)
(* q[0..T-1] (q[T-1] = q[0] by loop closure) the dynamics leave one        *)
(* unknown, the initial velocity v0:                                       *)
(*     u[k] = 2 (q[k+1] - q[k] - dt v[k]) / dt^2,  v[k+1] = v[k] + dt u[k] *)
(* so v[k+1] = -v[k] + 2 (q[k+1] - q[k]) / dt and v[T-1] = (-1)^(T-1) v0   *)
(* + c.  For even T the closure v[T-1] = v0 fixes v0 = c / 2: the feasible *)
(* point is unique and is the minimiser.  For odd T >= 3 the closure       *)
(* demands c = 0 (else the program is infeasible) and leaves v0 free; the  *)
(* minimiser of sum u[k]^2 is v0 = dt * sum (-1)^k u0[k] / (2 (T-1)), u0   *)
(* the inputs for v0 = 0.  For T = 1 there is one state, its velocity in   *)
(* no constraint and no objective term: the solver's 0.  u[T-1] is in no   *)
(* constraint and is minimised to 0.                                       *)

\* the loop template of generate_expert_trajectories, before the radius
Template ==
    << <<0 - 1, 0>>, <<0 - 1, 2>>, <<0, 3>>, <<1, 2>>, <<1, 1>>,
       <<2, 1>>, <<3, 0>>, <<2, 0 - 1>>, <<0, 0 - 1>> >>

\* x[-1] == x[0]: the last step of a grid of T steps has the state of step 0
Closed(T, k) == IF k = T - 1 THEN 0 ELSE k

\* the positions of the waypoints constrained at step k (from 0)
AtStep(T, idx, points, k) ==
    {points[j] : j \in {i \in 1..Len(idx) : Closed(T, idx[i]) = Closed(T, k)}}

\* x[point_idx, :2] == points and x[-1] == x[0] can hold together: no step
\* carries two different waypoints
NoConflict(T, idx, points) ==
    \A i \in 1..Len(idx), j \in 1..Len(idx) :
        Closed(T, idx[i]) = Closed(T, idx[j]) => points[i] = points[j]

\* the position (axis c) the constraints fix at step k of a grid of T steps
FixedPos(T, idx, points, k, c) ==
    (CHOOSE p \in AtStep(T, idx, points, k) : TRUE)[c]

\* the input the dynamics need at a step to move from position q with velocity v
\* to position qn: 2 (qn - q - dt v) / dt^2
InputFor(dt, q, qn, v) ==
    Div(Mul(Whole(2), Sub(Sub(qn, q), Mul(dt, v))), Mul(dt, dt))

RECURSIVE VelAt(_, _, _, _, _, _, _)
\* the velocity (axis c) at step k when the velocity at step 0 is v0
VelAt(T, idx, points, dt, c, v0, k) ==
    IF k = 0 THEN v0
    ELSE LET v == VelAt(T, idx, points, dt, c, v0, k - 1)
         IN FAdd(v, Mul(dt, InputFor(dt, FixedPos(T, idx, points, k - 1, c),
                                     FixedPos(T, idx, points, k, c), v)))

\* the input (axis c) at step k < T - 1 when the velocity at step 0 is v0
InputAt(T, idx, points, dt, c, v0, k) ==
    InputFor(dt, FixedPos(T, idx, points, k, c), FixedPos(T, idx, points, k + 1, c),
             VelAt(T, idx, points, dt, c, v0, k))

\* sum over k = 0 .. T-2 of (-1)^k u0[k]
AltInputSum(T, idx, points, dt, c) ==
    FSum([k \in 1..(T - 1) |->
             Mul(Whole(IF k % 2 = 1 THEN 1 ELSE 0 - 1),
                 InputAt(T, idx, points, dt, c, Zero, k - 1))],
         T - 1)

\* the initial velocity (axis c) of the minimiser
V0(T, idx, points, dt, c) ==
    IF T = 1 THEN Zero
    ELSE IF T % 2 = 0 THEN Div(VelAt(T, idx, points, dt, c, Zero, T - 1), Whole(2))
    ELSE Div(Mul(dt, AltInputSum(T, idx, points, dt, c)), Whole(2 * (T - 1)))

\* the constraint set of lines 93-100 has a solution
Feasible(T, idx, points, dt) ==
    /\ NoConflict(T, idx, points)
    /\ (T % 2 = 1 /\ T >= 3) =>
          \A c \in 1..2 : VelAt(T, idx, points, dt, c, Zero, T - 1) = Zero

\* x.value of the solved problem
FitX(T, idx, points, dt) ==
    LET vx == V0(T, idx, points, dt, 1)
        vy == V0(T, idx, points, dt, 2)
    IN [k \in 1..T |->
           << FixedPos(T, idx, points, k - 1, 1),
              FixedPos(T, idx, points, k - 1, 2),
              VelAt(T, idx, points, dt, 1, vx, k - 1),
              VelAt(T, idx, points, dt, 2, vy, k - 1) >>]

\* u.value of the solved problem
FitU(T, idx, points, dt) ==
    LET vx == V0(T, idx, points, dt, 1)
        vy == V0(T, idx, points, dt, 2)
    IN [k \in 1..T |->
           IF k = T THEN <<Zero, Zero>>
           ELSE << InputAt(T, idx, points, dt, 1, vx, k - 1),
                   InputAt(T, idx, points, dt, 2, vy, k - 1) >>]

\* the constraints of lines 93-100, on candidate values x and u
Constraints(Amat, Bmat, T, idx, points, x, u) ==
    /\ \A k \in 1..(T - 1) :
          x[k + 1] = VecAdd(MatVec(Amat, x[k]), MatVec(Bmat, u[k]))
    /\ \A i \in 1..Len(idx) : <<x[idx[i] + 1][1], x[idx[i] + 1][2]>> = points[i]
    /\ x[T] = x[1]

\* cp.sum_squares(u)
Objective(u) ==
    FSum([k \in 1..Len(u) |-> FAdd(Mul(u[k][1], u[k][1]), Mul(u[k][2], u[k][2]))], Len(u))

\* optimize(A, B, t, points) for a grid t of T steps: prob.status, and the pair
\* (x.value, u.value) it returns, which is (None, None) (none = TRUE) when the
\* problem has no solution
optimize(Amat, Bmat, T, points) ==
    LET idx == PointIdx(T, Len(points))
        dt  == Amat[1][3]
        ok  == Feasible(T, idx, points, dt)
    IN [status |-> IF ok THEN "optimal" ELSE "infeasible",
        point_idx |-> idx,
        none |-> ~ok,
        x |-> IF ok THEN FitX(T, idx, points, dt) ELSE <<>>,
        u |-> IF ok THEN FitU(T, idx, points, dt) ELSE <<>>]

\* points[i] of lines 47-66: the template scaled by the radius, plus the 18
\* samples the generator gives from stream position off, scaled by noise
Perturbed(radius, noise, seed, off) ==
    [j \in 1..Len(Template) |->
        << FAdd(Mul(Whole(Template[j][1]), radius),
                Normal(seed, off, noise, 2 * Len(Template))[2 * j - 1]),
           FAdd(Mul(Whole(Template[j][2]), radius),
                Normal(seed, off, noise, 2 * Len(Template))[2 * j]) >>]

Radii == {Whole(0), Whole(1)}

\* the time steps of the fitted grids
GridSteps == {Half, Whole(1), Whole(2)}

NoiseLevels == {Whole(0), Whole(1)}

InitOpt ==
    /\ SimIdle
    /\ GenIdle
    /\ \E T \in 1..MaxT, P \in 1..Len(Template), d \in GridSteps,
          r \in Radii, nz \in NoiseLevels, sd \in Seeds :
          /\ T <= P + 1
          /\ fn = [op |-> "optimize", pc |-> "call", T |-> T, dt |-> d,
                   points |-> SubSeq(Perturbed(r, nz, sd, 0), 1, P)]

\* x, u = optimize(A, B, t, points)
CallOptimize ==
    /\ fn.op = "optimize" /\ fn.pc = "call"
    /\ LET D == get_dynamics(fn.dt)
       IN fn' = [op |-> "optimize", pc |-> "done", T |-> fn.T, dt |-> fn.dt,
                 points |-> fn.points, res |-> optimize(D.A, D.B, fn.T, fn.points)]
    /\ UNCHANGED <<simVars, gen>>

NextOpt == CallOptimize

SpecOpt == InitOpt /\ [][NextOpt]_vars

OptDone == fn.op = "optimize" /\ fn.pc = "done"

\* every fit of the model satisfies the constraints of the program as written
FitIsSound ==
    (OptDone /\ ~fn.res.none) =>
        /\ Constraints(get_dynamics(fn.dt).A, get_dynamics(fn.dt).B, fn.T,
                       fn.res.point_idx, fn.points, fn.res.x, fn.res.u)

----------------------------------------------------------------------------
(* generate_expert_trajectories                                            *)

\* a length that drops the last, partial step of the grid
ArangeLenFloor(start, stop, step) ==
    IF ~Less(start, stop) THEN 0
    ELSE Div(Sub(stop, start), step).n \div Div(Sub(stop, start), step).d

\* len(np.arange(start, stop, step)), step > 0: ceil((stop - start) / step).
\* The durations and time steps of the model are binary fractions, for which
\* numpy's floating-point quotient has the ceiling of the exact quotient.
ArangeLen(start, stop, step) ==
    IF ~Less(start, stop) THEN 0
    ELSE LET q == Div(Sub(stop, start), step)
         IN (q.n + q.d - 1) \div q.d

\* np.arange(start, stop, step)
Arange(start, stop, step) ==
    [k \in 1..ArangeLen(start, stop, step) |-> FAdd(start, Mul(Whole(k - 1), step))]

\* what x[i] = None stores in a float array of `rows` by `cols`: NaN in every entry
NaNs(rows, cols) == [n \in 1..rows |-> [j \in 1..cols |-> NaN]]

GenConfigs ==
    [n_trajectories : 0..MaxTraj, duration : {Q(k, 2) : k \in 1..MaxDuration},
     time_step : GridSteps,
     trajectory_radius : Radii, trajectory_noise : NoiseLevels, state_noise : NoiseLevels]

InitGen ==
    /\ SimIdle
    /\ FnIdle
    /\ \E c \in GenConfigs :
          /\ ArangeLen(Zero, c.duration, c.time_step) <= Len(Template) + 1
          /\ gen = [pc |-> "start", config |-> c]

\* lines 39-66: the generator, the dynamics pair, the grid, the zero batches and
\* the perturbed waypoint sets
GenSetup ==
    /\ gen.pc = "start"
    /\ \E sd \in Seeds :
          LET c == gen.config
              n == c.n_trajectories
              t == Arange(Zero, c.duration, c.time_step)
          IN gen' = [pc |-> "loop", config |-> c,
                     rng |-> [seed |-> sd, pos |-> n * 2 * Len(Template)],
                     A |-> get_dynamics(c.time_step).A,
                     B |-> get_dynamics(c.time_step).B,
                     t |-> t,
                     x |-> [i \in 1..n |-> Zeros(Len(t), 4)],
                     u |-> [i \in 1..n |-> Zeros(Len(t), 2)],
                     points |-> [i \in 1..n |->
                                    Perturbed(c.trajectory_radius, c.trajectory_noise,
                                              sd, (i - 1) * 2 * Len(Template))],
                     i |-> 0, fits |-> <<>>, failed |-> {}]
    /\ UNCHANGED <<simVars, fn>>

\* lines 68-69, one iteration: x[i], u[i] = optimize(A, B, t, points[i]).  A
\* (None, None) is stored by numpy as NaN in every entry of x[i] and u[i]
GenFit ==
    /\ gen.pc = "loop"
    /\ gen.i < gen.config.n_trajectories
    /\ LET i == gen.i + 1
           r == optimize(gen.A, gen.B, Len(gen.t), gen.points[i])
       IN gen' = [gen EXCEPT
                     !.x[i] = IF r.none THEN NaNs(Len(gen.t), 4) ELSE r.x,
                     !.u[i] = IF r.none THEN NaNs(Len(gen.t), 2) ELSE r.u,
                     !.i = i,
                     !.fits = Append(@, gen.i),
                     !.failed = IF r.status = "optimal" THEN @ ELSE @ \cup {gen.i}]
    /\ UNCHANGED <<simVars, fn>>

\* lines 71-72: the measurement noise, and the return of (x + noise, u, points)
GenReturn ==
    /\ gen.pc = "loop"
    /\ gen.i = gen.config.n_trajectories
    /\ LET c == gen.config
           T == Len(gen.t)
           noise == Normal(gen.rng.seed, gen.rng.pos, Mul(c.state_noise, c.time_step),
                           c.n_trajectories * T * 4)
       IN gen' = [pc |-> "returned", config |-> c,
                  rng |-> [gen.rng EXCEPT !.pos = @ + c.n_trajectories * T * 4],
                  t |-> gen.t, fits |-> gen.fits, failed |-> gen.failed,
                  states |-> [i \in 1..c.n_trajectories |->
                                 MatAdd(gen.x[i],
                                        Reshape(SubSeq(noise, (i - 1) * T * 4 + 1, i * T * 4),
                                                T, 4))],
                  inputs |-> gen.u,
                  points |-> gen.points]
    /\ UNCHANGED <<simVars, fn>>

NextGen == GenSetup \/ GenFit \/ GenReturn

SpecGen == InitGen /\ [][NextGen]_vars

----------------------------------------------------------------------------
(* Claims about optimize                                                   *)

\* C2: when optimize is called with a waypoint count P >= the grid length T, the
\* condition is reported as infeasible and optimize hands back no result that
\* the caller can take for a fitted trajectory.
CE_C2_TooManyWaypointsReported ==
    (OptDone /\ Len(fn.points) >= fn.T) =>
        fn.res.status = "infeasible" /\ fn.res.none

\* the scenario of C3: the 9 template points, radius 1, zero noise, dt = 1
TemplateScenario(T) ==
    /\ OptDone
    /\ fn.T = T
    /\ fn.dt = Whole(1)
    /\ fn.points = [i \in 1..Len(Template) |-> <<Whole(Template[i][1]), Whole(Template[i][2])>>]

\* the fitted trajectory has every waypoint at its step and closes the loop
VisitsAndCloses ==
    /\ ~fn.res.none
    /\ \A i \in 1..Len(fn.points) :
          <<fn.res.x[fn.res.point_idx[i] + 1][1], fn.res.x[fn.res.point_idx[i] + 1][2]>>
              = fn.points[i]
    /\ fn.res.x[fn.T] = fn.res.x[1]

\* C3, as the specification states it: with T = 9 steps and the 9 template
\* waypoints, optimize assigns exactly one waypoint to each time step, the
\* constraint set is satisfiable, and the fitted trajectory has every template
\* point at its step and its last state equal to its first.
CE_C3_NineStepsNinePoints ==
    TemplateScenario(9) =>
        /\ \A k \in 0..8 : Cardinality({i \in 1..9 : fn.res.point_idx[i] = k}) = 1
        /\ fn.res.status = "optimal"
        /\ VisitsAndCloses

\* C3, amended: with T = 9 the waypoints 0 and 1 both fall on step 0, step 8
\* carries none, the constraint set is unsatisfiable and optimize returns
\* (None, None).  With T = 10 waypoint i is assigned to step i (one waypoint on
\* each of the steps 0..8, the last step left to the loop closure), the
\* constraint set is satisfiable, and the fitted trajectory satisfies the
\* constraints as written: every template point at its step, last state equal
\* to first.
Th_C3_TenStepsNinePoints ==
    /\ TemplateScenario(9) =>
          /\ fn.res.point_idx = <<0, 0, 1, 2, 3, 4, 5, 6, 7>>
          /\ fn.res.status = "infeasible"
          /\ fn.res.none
    /\ TemplateScenario(10) =>
          /\ \A i \in 1..9 : fn.res.point_idx[i] = i - 1
          /\ fn.res.status = "optimal"
          /\ VisitsAndCloses
          /\ Constraints(get_dynamics(fn.dt).A, get_dynamics(fn.dt).B, fn.T,
                         fn.res.point_idx, fn.points, fn.res.x, fn.res.u)

\* the fit of the template on 10 steps: a closed loop with a positive effort
Wit_C3 ==
    /\ TemplateScenario(10)
    /\ ~fn.res.none
    /\ fn.res.x[1] = <<Whole(0 - 1), Whole(0), Whole(0), Whole(2)>>
    /\ fn.res.x[10] = fn.res.x[1]
    /\ fn.res.x[9][1] = Whole(0) /\ fn.res.x[9][2] = Whole(0 - 1)
    /\ Less(Zero, Objective(fn.res.u))

----------------------------------------------------------------------------
(* Claims about generate_expert_trajectories                               *)

GenRunning == gen.pc \in {"loop", "returned"}

\* C4: if the fit of any one trajectory i fails, the whole batch generation
\* aborts: no batch of states and inputs is returned, and no later trajectory is
\* fitted after the failing one.
CE_C4_FailedFitAborts ==
    GenRunning =>
        \A i \in gen.failed :
            /\ gen.pc # "returned"
            /\ \A k \in 1..Len(gen.fits) : gen.fits[k] <= i

\* the grid times 0, time_step, 2*time_step, ... strictly below the duration
GridTimes(c) ==
    {k \in 0..(c.duration.n * c.time_step.d) : Less(Mul(Whole(k), c.time_step), c.duration)}

\* a batch of n trajectories of `rows` rows of `cols` values
HasShape(batch, n, rows, cols) ==
    /\ Len(batch) = n
    /\ \A i \in 1..n : /\ Len(batch[i]) = rows
                       /\ \A k \in 1..rows : Len(batch[i][k]) = cols

GenFitIsSound ==
    GenRunning =>
        \A i \in 1..Len(gen.fits) :
            (gen.fits[i] \notin gen.failed /\ gen.pc = "loop") =>
                /\ Constraints(gen.A, gen.B, Len(gen.t), PointIdx(Len(gen.t), Len(Template)),
                               gen.points[i], gen.x[i], gen.u[i])

====
